---- MODULE Spec2Model ----
(***************************************************************************)
(* HTTP-Frequency: the bounded-concurrency probing engine of py1.py.       *)
(*                                                                         *)
(* run_probe creates an asyncio.Semaphore, opens one shared                *)
(* httpx.AsyncClient, spawns one task per URL (bound_fetch), each of which *)
(* acquires the semaphore, runs fetch_one and releases the semaphore, and  *)
(* gathers the tasks' results.  main then hands the results to             *)
(* print_report.                                                           *)
(*                                                                         *)
(* Optional[T] values are sets with at most one element: {} is None and    *)
(* {v} is the value v.                                                     *)
(***************************************************************************)
EXTENDS Integers, Sequences, FiniteSets, TLC

\* ---------------------------------------------------------------- bounds
MaxUrls == 3
MaxConc == 2
MaxLines == 3
MaxAnswerLen == 2

\* ------------------------------------------------- inputs of the model
\* URLs the caller may pass (after scheme normalisation).
URLs == {"https://a", "https://b"}
\* URL a redirect may lead to (follow_redirects=True).
RedirectTarget == "https://r"
\* What client.request may answer with: the status, the time the request
\* took (seconds), r.content (None or a body of some length) and whether a
\* redirect was followed.
Responses ==
    {[status |-> 200, elapsed |-> 1, content |-> {3}, redirected |-> FALSE],
     [status |-> 304, elapsed |-> 2, content |-> {},  redirected |-> TRUE],
     [status |-> 400, elapsed |-> 1, content |-> {0}, redirected |-> FALSE]}
\* Exception classes client.request may raise: subclasses of
\* httpx.HTTPError, and classes that are not.
HTTPErrors == {"ConnectTimeout", "ConnectError"}
OtherErrors == {"InvalidURL"}
\* Values main may pass as concurrency and timeout (it validates neither).
Concurrencies == (-1)..MaxConc
Timeouts == {-1, 0, 5}
\* The pairs of the two a run is called with: every concurrency with the
\* default timeout, and every timeout with a concurrency of one.
Configs ==
    {c \in Concurrencies \X Timeouts : c[2] = 5 \/ c[1] = 1}

None == {}
Some(v) == {v}
IsPresent(o) == o # {}
Val(o) == CHOOSE v \in o : TRUE

SeqsUpTo(S, n) == UNION {[1..k -> S] : k \in 0..n}

VARIABLES
    urls,          \* run_probe's argument urls
    concurrency,   \* run_probe's argument concurrency
    timeout,       \* run_probe's argument timeout
    rp_pc,         \* position of the run_probe coroutine
    sem_value,     \* sem._value
    waiters,       \* sem._waiters: task indexes in arrival order
    client,        \* "none", "open" or "closed"
    t_pc,          \* position of each bound_fetch task
    t_res,         \* each task's return value (Optional[ProbeResult])
    t_exc,         \* each task's exception (Optional[class name])
    gather_exc,    \* the exception gather propagates (first one raised)
    results,       \* the list run_probe returned
    exc,           \* the exception run_probe raised
    report,        \* what print_report printed (Optional)
    inp,           \* the locals of get_urls_from_input and what is typed
    mn             \* the locals of main and what is typed

vars == <<urls, concurrency, timeout, rp_pc, sem_value, waiters, client,
          t_pc, t_res, t_exc, gather_exc, results, exc, report, inp, mn>>

Tasks == 1..Len(t_pc)

\* ------------------------------------------------------------ fetch_one
\* A result that counts status 400 as a success.
SuccessResult_le400(url, status, elapsed, content, final) ==
    [url |-> url,
     ok |-> status <= 400,
     status |-> Some(status),
     elapsed_s |-> Some(elapsed),
     bytes_rcv |-> Some(IF IsPresent(content) THEN Val(content) ELSE 0),
     final_url |-> Some(final),
     error |-> None]

\* A result that reports an unfavourable status as an error as well.
SuccessResult_error(url, status, elapsed, content, final) ==
    [url |-> url,
     ok |-> status < 400,
     status |-> Some(status),
     elapsed_s |-> Some(elapsed),
     bytes_rcv |-> Some(IF IsPresent(content) THEN Val(content) ELSE 0),
     final_url |-> Some(final),
     error |-> IF status < 400 THEN None ELSE Some("HTTPStatusError")]

\* ProbeResult built on a response (lines 24-34).
SuccessResult(url, status, elapsed, content, final) ==
    [url |-> url,
     ok |-> status < 400,
     status |-> Some(status),
     elapsed_s |-> Some(elapsed),
     bytes_rcv |-> Some(IF IsPresent(content) THEN Val(content) ELSE 0),
     final_url |-> Some(final),
     error |-> None]

\* A failure result that keeps a timing.
FailureResult_elapsed(url, cls) ==
    [url |-> url,
     ok |-> FALSE,
     status |-> None,
     elapsed_s |-> Some(0),
     bytes_rcv |-> None,
     final_url |-> None,
     error |-> Some(cls)]

\* ProbeResult built in the except httpx.HTTPError branch (lines 35-44).
FailureResult(url, cls) ==
    [url |-> url,
     ok |-> FALSE,
     status |-> None,
     elapsed_s |-> None,
     bytes_rcv |-> None,
     final_url |-> None,
     error |-> Some(cls)]

\* An except clause that catches nothing.
Caught_none(cls) == FALSE

\* Whether the except clause of fetch_one catches an exception class.
Caught(cls) == cls \in HTTPErrors

\* ------------------------------------------------------ asyncio.Semaphore
\* A gate that admits whoever asks.
locked_never(value, ws, pcs) == FALSE

\* Semaphore.locked(): no free slot, or somebody is queued already.
locked(value, ws, pcs) ==
    value = 0 \/ \E k \in 1..Len(ws) : pcs[ws[k]] # "cancelled"

\* A wake-up that resolves the future of every waiter for one slot.
wake_up_next_all(value, ws, pcs) ==
    LET pending == {k \in 1..Len(ws) : pcs[ws[k]] = "waiting"}
    IN  IF pending = {}
        THEN [value |-> value, pcs |-> pcs]
        ELSE [value |-> value - 1,
              pcs |-> [j \in 1..Len(pcs) |->
                         IF \E k \in pending : ws[k] = j THEN "woken"
                         ELSE pcs[j]]]

\* Semaphore._wake_up_next(): hand a slot to the first waiter whose future
\* is not done.  Yields the new counter and the new task positions.
wake_up_next(value, ws, pcs) ==
    LET pending == {k \in 1..Len(ws) : pcs[ws[k]] = "waiting"}
    IN  IF pending = {}
        THEN [value |-> value, pcs |-> pcs]
        ELSE LET k == CHOOSE x \in pending : \A y \in pending : x <= y
             IN  [value |-> value - 1,
                  pcs |-> [pcs EXCEPT ![ws[k]] = "woken"]]

\* A release that wakes the next waiter but forgets to count the slot.
release_lost(value, ws, pcs) == wake_up_next(value, ws, pcs)

\* Semaphore.release().
release(value, ws, pcs) == wake_up_next(value + 1, ws, pcs)

Remove(ws, i) == SelectSeq(ws, LAMBDA x : x # i)

\* ------------------------------------------------- get_urls_from_input
\* A typed line is the sequence of its characters.
Http == <<"h", "t", "t", "p", ":", "/", "/">>
Https == <<"h", "t", "t", "p", "s", ":", "/", "/">>
\* The lines a user may type at the "URL: " prompt.
TypedLines ==
    {<<"a">>,
     <<" ", "a", " ">>,
     Https \o <<"a">>,
     Http \o <<"a">>,
     <<"h", "t", "t", "p", ":", "/", "a">>,
     <<"b">>,
     <<" ">>}

\* str.strip(): leading and trailing blanks removed.
RECURSIVE LStrip(_)
LStrip(s) ==
    IF s # <<>> /\ s[1] = " " THEN LStrip(Tail(s)) ELSE s
RECURSIVE RStrip(_)
RStrip(s) ==
    IF s # <<>> /\ s[Len(s)] = " " THEN RStrip(SubSeq(s, 1, Len(s) - 1))
    ELSE s
Strip(s) == RStrip(LStrip(s))

\* str.startswith(prefix).
StartsWith(s, prefix) ==
    Len(s) >= Len(prefix) /\ SubSeq(s, 1, Len(prefix)) = prefix

\* A line that is kept as typed, scheme or not.
Normalize_asTyped(linha) == linha

\* Lines 74-75: a line without a scheme gets "https://" in front.
Normalize(linha) ==
    IF ~(StartsWith(linha, Http) \/ StartsWith(linha, Https))
    THEN Https \o linha
    ELSE linha

\* Lines 79-85: duplicates removed, the first occurrence kept.
RECURSIVE Uniq(_)
Uniq(us) ==
    IF us = <<>> THEN <<>>
    ELSE LET rest == Uniq(SubSeq(us, 1, Len(us) - 1))
             u == us[Len(us)]
         IN  IF \E k \in 1..Len(rest) : rest[k] = u THEN rest
             ELSE Append(rest, u)

\* Lines 68-76: the list built from what is typed, up to the first line
\* that is blank; the end of what is typed stands for the closing blank line.
RECURSIVE Collect(_)
Collect(typed) ==
    IF typed = <<>> \/ Strip(typed[1]) = <<>> THEN <<>>
    ELSE <<Normalize(Strip(typed[1]))>> \o Collect(Tail(typed))

\* Lines 64-85: what get_urls_from_input returns for what is typed.
get_urls_from_input(typed) == Uniq(Collect(typed))

InpIdle == [pc |-> "idle", typed |-> <<>>, pos |-> 0, urls |-> <<>>,
            uniq |-> <<>>]

\* ----------------------------------------------------------------- main
\* The characters of an answer to the two prompts of main.
AnswerChars == {" ", "-", "0", "3", "x"}
Answers == SeqsUpTo(AnswerChars, MaxAnswerLen)
Digits == {"0", "3"}
DigitValue(c) == IF c = "3" THEN 3 ELSE 0

\* Whether int() and float() take the text: a sign or none, then digits.
IsNumeral(s) ==
    LET body == IF s # <<>> /\ s[1] = "-" THEN Tail(s) ELSE s
    IN  body # <<>> /\ \A k \in 1..Len(body) : body[k] \in Digits

RECURSIVE NaturalOf(_)
NaturalOf(ds) ==
    IF ds = <<>> THEN 0
    ELSE 10 * NaturalOf(SubSeq(ds, 1, Len(ds) - 1)) + DigitValue(ds[Len(ds)])

\* The number int() and float() read in a numeral.
NumberOf(s) == IF s[1] = "-" THEN 0 - NaturalOf(Tail(s)) ELSE NaturalOf(s)

\* An answer is read as its number whatever it holds.
ParseOr_unchecked(answer, default) ==
    LET str == Strip(answer)
    IN  IF str = <<>> THEN default
        ELSE IF str[1] = "-" THEN 0 - NaturalOf(Tail(str))
        ELSE NaturalOf(str)

\* Lines 117-121 and 123-127: the stripped answer is the default when it is
\* empty, its number when it is a numeral, and the default again when int()
\* or float() raises ValueError.
ParseOr(answer, default) ==
    LET str == Strip(answer)
    IN  IF str = <<>> THEN default
        ELSE IF IsNumeral(str) THEN NumberOf(str)
        ELSE default

\* What is typed at the "URL: " prompts in a run of main.
MainScripts ==
    {<<>>, <<<<" ">>, <<"a">>>>, <<<<"a">>, Https \o <<"a">>, <<"b">>>>}

\* Lines 119 and 125: the values used when nothing usable is typed.
DefaultConcurrency == 5
DefaultTimeout == 5

MnIdle == [pc |-> "idle", typed |-> <<>>, urls |-> <<>>, conc_str |-> <<>>,
           concurrency |-> 0, tout_str |-> <<>>, timeout |-> 0]

\* ------------------------------------------------------------ run_probe
\* The lists of URLs a run is called with.  The URLs are interchangeable
\* (nothing in the code looks into one), so a list starts with the first.
UrlLists == {l \in SeqsUpTo(URLs, MaxUrls) : l # <<>> => l[1] = "https://a"}

Init ==
    /\ urls \in UrlLists
    /\ \E c \in Configs : concurrency = c[1] /\ timeout = c[2]
    /\ rp_pc = "call"
    /\ sem_value = 0
    /\ waiters = <<>>
    /\ client = "none"
    /\ t_pc = <<>>
    /\ t_res = <<>>
    /\ t_exc = <<>>
    /\ gather_exc = None
    /\ results = <<>>
    /\ exc = None
    /\ report = None
    /\ inp = InpIdle
    /\ mn = MnIdle

\* Line 48: asyncio.Semaphore(concurrency) raises ValueError below zero.
MakeSemaphore ==
    /\ rp_pc = "call"
    /\ IF concurrency < 0
       THEN /\ rp_pc' = "raised"
            /\ exc' = Some("ValueError")
            /\ UNCHANGED sem_value
       ELSE /\ rp_pc' = "sem"
            /\ sem_value' = concurrency
            /\ UNCHANGED exc
    /\ UNCHANGED <<inp, mn, urls, concurrency, timeout, waiters, client, t_pc, t_res,
                   t_exc, gather_exc, results, report>>

\* Lines 50-54: the shared client is opened with the given timeout.
OpenClient ==
    /\ rp_pc = "sem"
    /\ client' = "open"
    /\ rp_pc' = "client"
    /\ UNCHANGED <<inp, mn, urls, concurrency, timeout, sem_value, waiters, t_pc,
                   t_res, t_exc, gather_exc, results, exc, report>>

\* Line 60: one task per element of urls; line 61 then awaits gather.
CreateTasks ==
    /\ rp_pc = "client"
    /\ t_pc' = [i \in 1..Len(urls) |-> "created"]
    /\ t_res' = [i \in 1..Len(urls) |-> None]
    /\ t_exc' = [i \in 1..Len(urls) |-> None]
    /\ rp_pc' = "gather"
    /\ UNCHANGED <<inp, mn, urls, concurrency, timeout, sem_value, waiters, client,
                   gather_exc, results, exc, report>>

\* gather's outer future takes the first exception a task raises.
FirstException(cls) == IF gather_exc = None THEN Some(cls) ELSE gather_exc

\* Task i holds a slot (counter v, queue ws, positions p) and calls
\* fetch_one (line 58): client.request suspends until the answer arrives,
\* except on a closed client, where it raises RuntimeError at once; that
\* exception is not an httpx.HTTPError, so it leaves fetch_one and
\* "async with sem" releases the slot.
EnterFetch(i, v, ws, p) ==
    /\ waiters' = ws
    /\ IF client = "closed"
       THEN LET r == release(v, ws, p)
            IN  /\ sem_value' = r.value
                /\ t_pc' = [r.pcs EXCEPT ![i] = "raised"]
                /\ t_exc' = [t_exc EXCEPT ![i] = Some("RuntimeError")]
                /\ gather_exc' = FirstException("RuntimeError")
       ELSE /\ sem_value' = v
            /\ t_pc' = [p EXCEPT ![i] = "inflight"]
            /\ UNCHANGED <<t_exc, gather_exc>>

\* Lines 56-58, first step of a task: "async with sem" either takes a slot
\* at once and goes on into fetch_one, or queues the task.
TaskStart(i) ==
    /\ i \in Tasks
    /\ t_pc[i] = "created"
    /\ IF ~locked(sem_value, waiters, t_pc)
       THEN EnterFetch(i, sem_value - 1, waiters, t_pc)
       ELSE /\ waiters' = Append(waiters, i)
            /\ t_pc' = [t_pc EXCEPT ![i] = "waiting"]
            /\ UNCHANGED <<sem_value, t_exc, gather_exc>>
    /\ UNCHANGED <<inp, mn, urls, concurrency, timeout, rp_pc, client, t_res,
                   results, exc, report>>

\* A queued task whose future was resolved resumes inside acquire(): it
\* leaves the queue, passes a spare slot on, and goes on into fetch_one.
TaskResume(i) ==
    /\ i \in Tasks
    /\ t_pc[i] = "woken"
    /\ LET ws == Remove(waiters, i)
           w  == IF sem_value > 0
                 THEN wake_up_next(sem_value, ws, t_pc)
                 ELSE [value |-> sem_value, pcs |-> t_pc]
       IN  EnterFetch(i, w.value, ws, w.pcs)
    /\ UNCHANGED <<inp, mn, urls, concurrency, timeout, rp_pc, client, t_res,
                   results, exc, report>>

\* Lines 23-34: the request of task i is answered; fetch_one returns a
\* ProbeResult and "async with sem" releases the slot.
TaskResponse(i) ==
    /\ i \in Tasks
    /\ t_pc[i] = "inflight"
    /\ \E resp \in Responses :
         LET final == IF resp.redirected THEN RedirectTarget ELSE urls[i]
             res == SuccessResult(urls[i], resp.status, resp.elapsed,
                                  resp.content, final)
             r == release(sem_value, waiters, t_pc)
         IN  /\ t_res' = [t_res EXCEPT ![i] = Some(res)]
             /\ sem_value' = r.value
             /\ t_pc' = [r.pcs EXCEPT ![i] = "done"]
    /\ UNCHANGED <<inp, mn, urls, concurrency, timeout, rp_pc, waiters, client,
                   t_exc, gather_exc, results, exc, report>>

\* Lines 23, 35-44: the request of task i raises.  An httpx.HTTPError
\* becomes a failed ProbeResult; any other exception leaves fetch_one and
\* bound_fetch, and the task ends with that exception.  The slot is
\* released either way.
TaskError(i) ==
    /\ i \in Tasks
    /\ t_pc[i] = "inflight"
    /\ \E cls \in HTTPErrors \cup OtherErrors :
         LET r == release(sem_value, waiters, t_pc)
         IN  /\ sem_value' = r.value
             /\ IF Caught(cls)
                THEN /\ t_res' = [t_res EXCEPT ![i] =
                                    Some(FailureResult(urls[i], cls))]
                     /\ t_pc' = [r.pcs EXCEPT ![i] = "done"]
                     /\ UNCHANGED <<t_exc, gather_exc>>
                ELSE /\ t_exc' = [t_exc EXCEPT ![i] = Some(cls)]
                     /\ t_pc' = [r.pcs EXCEPT ![i] = "raised"]
                     /\ gather_exc' = FirstException(cls)
                     /\ UNCHANGED t_res
    /\ UNCHANGED <<inp, mn, urls, concurrency, timeout, rp_pc, waiters, client,
                   results, exc, report>>

\* A fan-in that keeps only one result per distinct URL.
gather_dedup(res) ==
    LET all == [i \in 1..Len(res) |-> Val(res[i])]
        firsts == {i \in 1..Len(all) :
                     \A j \in 1..(i - 1) : all[j].url # all[i].url}
        Pick(n) == CHOOSE i \in firsts :
                     Cardinality({j \in firsts : j < i}) = n - 1
    IN  [n \in 1..Cardinality(firsts) |-> all[Pick(n)]]

\* A fan-in that yields the results last task first.
gather_reversed(res) ==
    [i \in 1..Len(res) |-> Val(res[Len(res) + 1 - i])]

\* asyncio.gather(*tasks) with return_exceptions=False: the results of the
\* tasks in the order the tasks were passed.
gather(res) == [i \in 1..Len(res) |-> Val(res[i])]

\* A fan-in that needs at least one task to complete.
AllReturned_nonempty(pcs) ==
    Len(pcs) > 0 /\ \A i \in 1..Len(pcs) : pcs[i] = "done"

\* Whether gather's outer future holds a result: every task returned.
AllReturned(pcs) == \A i \in 1..Len(pcs) : pcs[i] = "done"

\* Line 61 and the end of "async with ... as client": every task returned,
\* the client is closed and run_probe returns the gathered list.
GatherReturn ==
    /\ rp_pc = "gather"
    /\ AllReturned(t_pc)
    /\ results' = gather(t_res)
    /\ client' = "closed"
    /\ rp_pc' = "returned"
    /\ UNCHANGED <<inp, mn, urls, concurrency, timeout, sem_value, waiters, t_pc,
                   t_res, t_exc, gather_exc, exc, report>>

\* Line 61: a task raised, so "await gather" raises in run_probe, the
\* "async with" block closes the client on the way out and run_probe ends
\* with that exception.
GatherRaise ==
    /\ rp_pc = "gather"
    /\ gather_exc # None
    /\ client' = "closed"
    /\ rp_pc' = "raised"
    /\ exc' = gather_exc
    /\ UNCHANGED <<inp, mn, urls, concurrency, timeout, sem_value, waiters, t_pc,
                   t_res, t_exc, gather_exc, results, report>>

Unfinished(pcs) ==
    {i \in 1..Len(pcs) : pcs[i] \in {"created", "waiting", "woken", "inflight"}}

\* Line 132: asyncio.run, once run_probe has raised, cancels the tasks that
\* are left; a cancelled task that held a slot gives it back.
CancelAll ==
    /\ rp_pc = "raised"
    /\ Unfinished(t_pc) # {}
    /\ LET held == {i \in Tasks : t_pc[i] \in {"woken", "inflight"}}
       IN  sem_value' = sem_value + Cardinality(held)
    /\ waiters' = <<>>
    /\ t_pc' = [i \in Tasks |->
                  IF i \in Unfinished(t_pc) THEN "cancelled" ELSE t_pc[i]]
    /\ t_exc' = [i \in Tasks |->
                  IF i \in Unfinished(t_pc) THEN Some("CancelledError")
                  ELSE t_exc[i]]
    /\ UNCHANGED <<inp, mn, urls, concurrency, timeout, rp_pc, client, t_res,
                   gather_exc, results, exc, report>>

\* --------------------------------------------------------- print_report
\* No sorting: the element goes to the end.
InsertAtEnd(x, s) == Append(s, x)

\* sorted(ok, key=lambda r: r.elapsed_s) (line 92): Python's sort is stable,
\* so an element goes after the elements whose key is not larger.
InsertByElapsed(x, s) ==
    LET n == Cardinality({k \in 1..Len(s) :
                            Val(s[k].elapsed_s) <= Val(x.elapsed_s)})
    IN  SubSeq(s, 1, n) \o <<x>> \o SubSeq(s, n + 1, Len(s))

RECURSIVE SortedByElapsed(_)
SortedByElapsed(s) ==
    IF s = <<>> THEN <<>>
    ELSE InsertByElapsed(s[Len(s)], SortedByElapsed(SubSeq(s, 1, Len(s) - 1)))

\* Line 89: the results listed as successes.
OkFilter(r) == r.ok /\ IsPresent(r.elapsed_s)

\* Line 90: the results listed as failures.
FailFilter(r) == ~r.ok

\* Line 98: one line of the success section.
OkLine(i, r) ==
    [rank |-> i, url |-> r.url, ms |-> Val(r.elapsed_s) * 1000,
     status |-> r.status]

\* Line 105: r.error or ('HTTP ' + str(r.status)).
FailText(r) ==
    IF IsPresent(r.error) /\ Val(r.error) # ""
    THEN Val(r.error)
    ELSE "HTTP " \o (IF IsPresent(r.status) THEN ToString(Val(r.status))
                     ELSE "None")

\* Lines 88-106: what print_report prints for a list of results.
print_report(rs) ==
    LET ok == SelectSeq(rs, OkFilter)
        fail == SelectSeq(rs, FailFilter)
        ok_sorted == SortedByElapsed(ok)
    IN  [successes |-> [i \in 1..Len(ok_sorted) |-> OkLine(i, ok_sorted[i])],
         failures |-> [i \in 1..Len(fail) |->
                         [url |-> fail[i].url, text |-> FailText(fail[i])]]]

\* Line 133: main prints the report of what run_probe returned.
PrintReport ==
    /\ rp_pc = "returned"
    /\ report = None
    /\ report' = Some(print_report(results))
    /\ UNCHANGED <<inp, mn, urls, concurrency, timeout, rp_pc, sem_value, waiters,
                   client, t_pc, t_res, t_exc, gather_exc, results, exc>>

\* ------------------------------------------------------- specification
Next ==
    \/ MakeSemaphore
    \/ OpenClient
    \/ CreateTasks
    \/ \E i \in Tasks : TaskStart(i)
    \/ \E i \in Tasks : TaskResume(i)
    \/ \E i \in Tasks : TaskResponse(i)
    \/ \E i \in Tasks : TaskError(i)
    \/ GatherReturn
    \/ GatherRaise
    \/ CancelAll
    \/ PrintReport

Spec == Init /\ [][Next]_vars

\* The steps of the run_probe coroutine and of the task of urls[i].
RunProbeStep ==
    \/ MakeSemaphore
    \/ OpenClient
    \/ CreateTasks
    \/ GatherReturn
    \/ GatherRaise
TaskStep(i) ==
    \/ TaskStart(i)
    \/ TaskResume(i)
    \/ TaskResponse(i)
    \/ TaskError(i)

\* Which URL a task probes has no bearing on whether it finishes; the fair
\* runs probe one URL as often as the list is long.
InitFair == Init /\ \A k \in 1..Len(urls) : urls[k] = "https://a"

\* The event loop runs every callback that is ready, and every request
\* ends (with an answer or an exception, at the latest on its timeout): a
\* coroutine that can take a step is not left waiting forever.
FairSpec ==
    /\ InitFair
    /\ [][Next]_vars
    /\ WF_vars(RunProbeStep)
    /\ \A i \in 1..MaxUrls : WF_vars(TaskStep(i))

\* ------------------------------------- get_urls_from_input, step by step
rp_vars == <<urls, concurrency, timeout, rp_pc, sem_value, waiters, client,
             t_pc, t_res, t_exc, gather_exc, results, exc, report>>

\* run_probe has not been called.
RunProbeIdle ==
    /\ urls = <<>>
    /\ concurrency = 0
    /\ timeout = 0
    /\ rp_pc = "idle"
    /\ sem_value = 0
    /\ waiters = <<>>
    /\ client = "none"
    /\ t_pc = <<>>
    /\ t_res = <<>>
    /\ t_exc = <<>>
    /\ gather_exc = None
    /\ results = <<>>
    /\ exc = None
    /\ report = None

InitInput ==
    /\ RunProbeIdle
    /\ mn = MnIdle
    /\ \E typed \in SeqsUpTo(TypedLines, MaxLines) :
         inp = [pc |-> "loop", typed |-> typed, pos |-> 0, urls |-> <<>>,
                uniq |-> <<>>]

\* Lines 69-76: one turn of the loop.  The next line is read and stripped;
\* a blank one (or the end of what is typed) ends the loop, any other is
\* normalised and appended.
ReadLine ==
    /\ inp.pc = "loop"
    /\ LET linha == IF inp.pos < Len(inp.typed)
                    THEN Strip(inp.typed[inp.pos + 1]) ELSE <<>>
       IN  IF linha = <<>>
           THEN inp' = [inp EXCEPT !.pc = "dedup"]
           ELSE inp' = [inp EXCEPT !.pos = inp.pos + 1,
                                   !.urls = Append(inp.urls, Normalize(linha))]
    /\ UNCHANGED <<mn, rp_vars>>

\* Lines 78-85: the duplicates are dropped and the list is returned.
DedupUrls ==
    /\ inp.pc = "dedup"
    /\ inp' = [inp EXCEPT !.pc = "done", !.uniq = Uniq(inp.urls)]
    /\ UNCHANGED <<mn, rp_vars>>

NextInput == ReadLine \/ DedupUrls

SpecInput == InitInput /\ [][NextInput]_vars

\* ------------------------------------------------- main, up to run_probe
InitMain ==
    /\ RunProbeIdle
    /\ inp = InpIdle
    /\ \E typed \in MainScripts :
         mn = [MnIdle EXCEPT !.pc = "start", !.typed = typed]

\* Lines 111-114: the URLs are read; without any, main ends.
MainGetUrls ==
    /\ mn.pc = "start"
    /\ LET us == get_urls_from_input(mn.typed)
       IN  mn' = [mn EXCEPT !.urls = us,
                            !.pc = IF us = <<>> THEN "exit" ELSE "ask_conc"]
    /\ UNCHANGED <<inp, rp_vars>>

\* Lines 117-121: the concurrency is asked for.
MainAskConcurrency ==
    /\ mn.pc = "ask_conc"
    /\ \E answer \in Answers :
         mn' = [mn EXCEPT !.conc_str = Strip(answer),
                          !.concurrency = ParseOr(answer, DefaultConcurrency),
                          !.pc = "ask_tout"]
    /\ UNCHANGED <<inp, rp_vars>>

\* Lines 123-127: the timeout is asked for.
MainAskTimeout ==
    /\ mn.pc = "ask_tout"
    /\ \E answer \in Answers :
         mn' = [mn EXCEPT !.tout_str = Strip(answer),
                          !.timeout = ParseOr(answer, DefaultTimeout),
                          !.pc = "ready"]
    /\ UNCHANGED <<inp, rp_vars>>

\* Line 132: run_probe is called with what was read.
MainCallRunProbe ==
    /\ mn.pc = "ready"
    /\ mn' = [mn EXCEPT !.pc = "called"]
    /\ urls' = mn.urls
    /\ concurrency' = mn.concurrency
    /\ timeout' = mn.timeout
    /\ rp_pc' = "call"
    /\ UNCHANGED <<inp, sem_value, waiters, client, t_pc, t_res, t_exc,
                   gather_exc, results, exc, report>>

NextMain ==
    \/ MainGetUrls
    \/ MainAskConcurrency
    \/ MainAskTimeout
    \/ MainCallRunProbe

SpecMain == InitMain /\ [][NextMain]_vars

\* -------------------------------------------------------------- claims
InFlight == {i \in Tasks : t_pc[i] = "inflight"}
Waiting == {i \in Tasks : t_pc[i] = "waiting"}
\* Tasks that hold a slot of the semaphore: handed one while queued, or
\* inside fetch_one.
Holders == {i \in Tasks : t_pc[i] \in {"woken", "inflight"}}
\* Tasks that have run at all.
Started == {i \in Tasks : t_pc[i] # "created"}
\* Tasks whose request went out.
Requested == {i \in Tasks : t_pc[i] = "inflight" \/ IsPresent(t_res[i])}
Occurrences(seq, P(_)) == Cardinality({k \in 1..Len(seq) : P(seq[k])})

\* C1: with concurrency = N >= 1, the number of tasks that hold a slot of
\* the semaphore (and so the number inside fetch_one) never exceeds N.
C1_ConcurrencyBound ==
    concurrency >= 1 =>
        /\ Cardinality(Holders) <= concurrency
        /\ Cardinality(InFlight) <= concurrency

\* A full gate of one slot with two tasks queued behind it.
C1_Witness ==
    /\ concurrency = 1
    /\ Cardinality(InFlight) = 1
    /\ Cardinality(Waiting) = 2

\* C2: a run_probe call on K >= 1 URLs that returns, returns K results,
\* and as many results for each URL as the URL occurs in the input.
C2_CardinalityPreserved ==
    (rp_pc = "returned" /\ Len(urls) >= 1) =>
        /\ Len(results) = Len(urls)
        /\ \A u \in URLs :
             Occurrences(results, LAMBDA r : r.url = u)
               = Occurrences(urls, LAMBDA x : x = u)

\* A returned run on a list with a duplicate, with a success, an
\* unfavourable status and a transport failure among the results.
C2_Witness ==
    /\ rp_pc = "returned"
    /\ Len(urls) = 3
    /\ urls[1] = urls[3]
    /\ \E i, j, k \in 1..Len(results) :
         /\ results[i].ok
         /\ ~results[j].ok /\ IsPresent(results[j].status)
         /\ IsPresent(results[k].error)

\* C3: with concurrency < 1 run_probe fails with a configuration error
\* before any task starts and before any request goes out, and never ends
\* with every task waiting on the semaphore.
AllWaitForever ==
    /\ rp_pc = "gather"
    /\ Tasks # {}
    /\ \A i \in Tasks : t_pc[i] = "waiting"
    /\ sem_value = 0
C3_FailsFast ==
    (concurrency < 1 /\ timeout > 0 /\ urls # <<>>) =>
        /\ Started = {}
        /\ Requested = {}
        /\ rp_pc # "returned"
        /\ ~AllWaitForever

\* C4: with concurrency >= 1 and timeout > 0 no exception leaves fetch_one
\* or run_probe: no task ends with an exception and run_probe does not
\* raise.
C4_NeverRaises ==
    (concurrency >= 1 /\ timeout > 0) =>
        /\ rp_pc # "raised"
        /\ \A i \in Tasks : t_pc[i] # "raised"

\* The ProbeResults run_probe returned.
Returned == IF rp_pc = "returned" THEN {results[k] : k \in 1..Len(results)}
            ELSE {}
\* The ProbeResults fetch_one has produced so far.
Produced == {Val(t_res[i]) : i \in {j \in Tasks : IsPresent(t_res[j])}}

\* C5: in every returned ProbeResult, ok holds exactly when status is
\* present and below 400, and then error is absent and elapsed_s, bytes_rcv
\* and final_url are present.
C5_OkIffStatusBelow400 ==
    \A r \in Returned :
        /\ r.ok <=> (IsPresent(r.status) /\ Val(r.status) < 400)
        /\ r.ok => /\ ~IsPresent(r.error)
                   /\ IsPresent(r.elapsed_s)
                   /\ IsPresent(r.bytes_rcv)
                   /\ IsPresent(r.final_url)

\* Returned results with a status just below and exactly at the limit of
\* 400, and one without a status.
C5_Witness ==
    /\ \E r \in Returned : r.ok /\ r.status = Some(304)
    /\ \E r \in Returned : ~r.ok /\ r.status = Some(400)
    /\ \E r \in Returned : ~r.ok /\ ~IsPresent(r.status)

\* C6: in every returned ProbeResult with ok false, a present status means
\* an absent error and an absent status means a present error; no returned
\* result has both status and error, and none has neither.
C6_StatusXorError ==
    \A r \in Returned :
        /\ (~r.ok /\ IsPresent(r.status)) => ~IsPresent(r.error)
        /\ (~r.ok /\ ~IsPresent(r.status)) => IsPresent(r.error)
        /\ IsPresent(r.status) # IsPresent(r.error)

\* Both kinds of failed result returned by one run.
C6_Witness ==
    /\ \E r \in Returned : ~r.ok /\ r.status = Some(400)
    /\ \E r \in Returned : ~r.ok /\ r.error = Some("ConnectTimeout")

\* C7: with timeout <= 0 run_probe fails with a configuration error before
\* any task starts and before any request goes out, and does not run the
\* probes.
C7_TimeoutRejected ==
    (timeout <= 0 /\ concurrency >= 1 /\ urls # <<>>) =>
        /\ Started = {}
        /\ Requested = {}
        /\ rp_pc # "returned"

\* C9: in every ProbeResult of fetch_one, status, elapsed_s, bytes_rcv and
\* final_url are all present or all absent; they are absent exactly when
\* error is present, and then ok is false and error is a non-empty string;
\* url is the URL the task was given.
AllFour(r, present) ==
    /\ IsPresent(r.status) = present
    /\ IsPresent(r.elapsed_s) = present
    /\ IsPresent(r.bytes_rcv) = present
    /\ IsPresent(r.final_url) = present
C9_FieldsTogether ==
    \A i \in Tasks :
        IsPresent(t_res[i]) =>
            LET r == Val(t_res[i])
            IN  /\ AllFour(r, TRUE) \/ AllFour(r, FALSE)
                /\ AllFour(r, FALSE) <=> IsPresent(r.error)
                /\ IsPresent(r.error) => (~r.ok /\ Val(r.error) # "")
                /\ r.url = urls[i]

\* A redirected answer and a transport failure produced in one run.
C9_Witness ==
    /\ \E r \in Produced : r.final_url = Some(RedirectTarget)
    /\ \E r \in Produced : IsPresent(r.error)

\* C10: print_report lists every returned result in exactly one section
\* (the successes are the results with ok, the failures those without),
\* lists the successes in ascending order of elapsed time, and renders a
\* failure with its error if it has one and with its HTTP status if not.
RenderedFailure(r) ==
    IF IsPresent(r.error) THEN Val(r.error)
    ELSE "HTTP " \o ToString(Val(r.status))
C10_ReportPartition ==
    IsPresent(report) =>
        LET rep == Val(report)
            failed == SelectSeq(results, LAMBDA x : ~x.ok)
        IN  /\ \A u \in URLs, st \in {rr.status : rr \in Returned} :
                 Occurrences(rep.successes,
                             LAMBDA l : l.url = u /\ l.status = st)
                   = Occurrences(results,
                             LAMBDA y : y.url = u /\ y.status = st /\ y.ok)
            /\ \A u \in URLs :
                 Occurrences(rep.failures, LAMBDA l : l.url = u)
                   = Occurrences(results, LAMBDA y : y.url = u /\ ~y.ok)
            /\ Len(rep.successes) + Len(rep.failures) = Len(results)
            /\ \A n \in 1..Len(rep.successes) :
                 /\ rep.successes[n].rank = n
                 /\ n > 1 => rep.successes[n - 1].ms <= rep.successes[n].ms
                 /\ \E r \in Returned :
                      /\ r.ok /\ r.url = rep.successes[n].url
                      /\ r.status = rep.successes[n].status
                      /\ rep.successes[n].ms = Val(r.elapsed_s) * 1000
            /\ Len(rep.failures) = Len(failed)
            /\ \A n \in 1..Len(rep.failures) :
                 /\ rep.failures[n].url = failed[n].url
                 /\ rep.failures[n].text = RenderedFailure(failed[n])

\* A report of a slower success returned before a faster one, a failure
\* with an error and a failure with a status.
C10_Witness ==
    /\ IsPresent(report)
    /\ Len(results) = 3
    /\ \E i, j \in 1..3 :
         /\ i < j /\ results[i].ok /\ results[j].ok
         /\ Val(results[i].elapsed_s) > Val(results[j].elapsed_s)
    /\ Len(Val(report).successes) = 2
    /\ Val(report).successes[1].ms = 1000
    /\ Len(Val(report).failures) = 1

\* C8: run_probe on an empty URL list with concurrency >= 1 terminates: it
\* ends as a configuration error or returns an empty list.
C8_EmptyListTerminates ==
    (urls = <<>> /\ concurrency >= 1) ~>
        \/ rp_pc = "returned" /\ results = <<>>
        \/ rp_pc = "raised" /\ Started = {}

\* run_probe has returned from a call on an empty list.
C8_Witness ==
    /\ urls = <<>>
    /\ concurrency >= 1
    /\ rp_pc = "returned"
    /\ results = <<>>
    /\ t_pc = <<>>

\* C11: get_urls_from_input returns a list without duplicates, in the
\* order of first occurrence, whose entries all start with http:// or
\* https://: each line typed (stripped) as it is if it has such a scheme
\* and with https:// in front if it has none, duplicates being dropped
\* after that.
HasScheme(str) == StartsWith(str, Http) \/ StartsWith(str, Https)
C11_Entered ==
    [k \in 1..inp.pos |->
        LET str == Strip(inp.typed[k])
        IN  IF HasScheme(str) THEN str ELSE Https \o str]
C11_FirstAt(u) ==
    CHOOSE k \in 1..inp.pos :
        /\ C11_Entered[k] = u
        /\ \A j \in 1..(k - 1) : C11_Entered[j] # u
C12_Expected(str, default) ==
    IF str = <<>> \/ ~IsNumeral(str) THEN default ELSE NumberOf(str)
C12_DefaultsAndOverrides ==
    mn.pc = "called" =>
        /\ concurrency = C12_Expected(mn.conc_str, 5)
        /\ timeout = C12_Expected(mn.tout_str, 5)
        /\ mn.conc_str \in {<<>>, <<"x">>, <<"-">>, <<"3", "x">>}
             => concurrency = 5
        /\ mn.tout_str \in {<<>>, <<"x">>, <<"-">>, <<"x", "0">>}
             => timeout = 5
        /\ mn.conc_str = <<"3">> => concurrency = 3
        /\ mn.conc_str = <<"3", "0">> => concurrency = 30
        /\ mn.tout_str = <<"-", "3">> => timeout = 0 - 3
        /\ mn.tout_str = <<"0">> => timeout = 0

\* A call after a number for the concurrency and letters for the timeout.
C12_Witness ==
    /\ mn.pc = "called"
    /\ rp_pc = "call"
    /\ mn.conc_str = <<"3">>
    /\ mn.tout_str = <<"x">>
    /\ concurrency = 3
    /\ timeout = 5

HoldersOf(pcs) == {i \in 1..Len(pcs) : pcs[i] \in {"woken", "inflight"}}
\* The semaphore exists: line 48 has run without raising.
GateExists == rp_pc \in {"sem", "client", "gather", "returned", "raised"}
                /\ concurrency >= 0

\* C13: every slot taken is given back exactly once, however the probe
\* ends: the free slots and the held slots always add up to the configured
\* concurrency, the free slots never exceed it, and once every task has
\* finished all slots are free again.
C13_SlotsConserved ==
    GateExists =>
        /\ sem_value + Cardinality(Holders) = concurrency
        /\ sem_value >= 0
        /\ sem_value <= concurrency
        /\ (rp_pc \in {"gather", "returned", "raised"}
              /\ Unfinished(t_pc) = {}) => sem_value = concurrency

\* Three tasks have ended, one with a success, one with a failed result
\* and one with an exception, and every slot is free.
C13_Witness ==
    /\ GateExists
    /\ Len(t_pc) = 3
    /\ Unfinished(t_pc) = {}
    /\ \E i, j, k \in Tasks :
         /\ IsPresent(t_res[i]) /\ Val(t_res[i]).ok
         /\ IsPresent(t_res[j]) /\ IsPresent(Val(t_res[j]).error)
         /\ t_pc[k] = "raised" /\ t_exc[k] = Some("InvalidURL")
    /\ sem_value = concurrency
    /\ concurrency = 2

\* C14: when run_probe has returned or raised, no task is still waiting or
\* in flight, and the client is never closed while a task is unfinished.
C14_FanInBarrier ==
    /\ rp_pc \in {"returned", "raised"} => Waiting \cup Holders = {}
    /\ client = "closed" => Waiting \cup Holders = {}

\* C15: with concurrency >= 1 every task waiting on the semaphore gets a
\* slot in the end, every task finishes and run_probe returns.
C15_NoStarvation ==
    concurrency >= 1 =>
        /\ \A i \in 1..MaxUrls :
             (i \in Waiting) ~>
                 (i \in Tasks /\ t_pc[i] \in {"woken", "inflight", "done",
                                             "raised"})
        /\ <>(rp_pc = "gather" /\ Unfinished(t_pc) = {})
        /\ <>(rp_pc = "returned")

\* C16: the step in which the request of a task fails on the transport
\* (with a timeout or another httpx.HTTPError) turns that task's outcome
\* into a failed ProbeResult and nothing else: no exception is raised, and
\* no other task is cancelled, failed or given another outcome.
C16_TransportFailure(i) ==
    /\ t_pc[i] = "inflight"
    /\ t_pc'[i] # "inflight"
    /\ \/ IsPresent(t_res'[i]) /\ IsPresent(Val(t_res'[i]).error)
       \/ t_exc'[i] \cap HTTPErrors # {}
C16_FailureIsLocal ==
    [][\A i \in Tasks :
         C16_TransportFailure(i) =>
            /\ t_pc'[i] = "done"
            /\ t_exc'[i] = None
            /\ IsPresent(t_res'[i])
            /\ ~Val(t_res'[i]).ok
            /\ Val(t_res'[i]).error \cap HTTPErrors # {}
            /\ gather_exc' = gather_exc
            /\ rp_pc' = rp_pc
            /\ \A j \in Tasks \ {i} :
                 /\ t_res'[j] = t_res[j]
                 /\ t_exc'[j] = t_exc[j]
                 /\ \/ t_pc'[j] = t_pc[j]
                    \/ t_pc[j] = "waiting" /\ t_pc'[j] = "woken"]_vars

\* One probe has timed out while a sibling is in flight and another one,
\* queued behind it, has been handed its slot.
C16_Witness ==
    /\ rp_pc = "gather"
    /\ \E i, j, k \in Tasks :
         /\ t_res[i] = Some(FailureResult(urls[i], "ConnectTimeout"))
         /\ t_pc[j] = "inflight"
         /\ t_pc[k] = "woken"

\* C17: the list run_probe returns is in input order: its i-th result is
\* the result of the task of urls[i].
C17_InputOrder ==
    rp_pc = "returned" =>
        /\ Len(results) = Len(urls)
        /\ \A i \in 1..Len(urls) :
             /\ results[i].url = urls[i]
             /\ results[i] = Val(t_res[i])

\* A returned run on a list that is not a palindrome.
C17_Witness ==
    /\ rp_pc = "returned"
    /\ urls = <<"https://a", "https://a", "https://b">>
    /\ results[3].url = "https://b"
    /\ results[1].ok /\ ~results[2].ok

\* C18: main calls run_probe only with a non-empty URL list, a concurrency
\* of at least one and a timeout above zero, and does not call it when no
\* URL was entered.
C18_ValidConfiguration ==
    /\ mn.pc = "called" =>
         /\ urls # <<>>
         /\ concurrency >= 1
         /\ timeout > 0
    /\ mn.pc = "exit" => rp_pc = "idle"

\* C19: a step of a task changes nothing shared but the semaphore, and the
\* semaphore only by the task's own acquire and release: the slots (free
\* and held) stay as many, the client and the arguments stay as they are,
\* and of the other tasks none changes but a waiter that is handed the
\* slot; and a ProbeResult, once produced, never changes.
C19_TaskStepFrame ==
    [][/\ \A i \in Tasks :
            TaskStep(i) =>
              /\ client' = client
              /\ <<urls, concurrency, timeout>>' = <<urls, concurrency, timeout>>
              /\ sem_value' + Cardinality(HoldersOf(t_pc'))
                   = sem_value + Cardinality(HoldersOf(t_pc))
              /\ results' = results
              /\ \A j \in Tasks \ {i} :
                   /\ t_res'[j] = t_res[j]
                   /\ t_exc'[j] = t_exc[j]
                   /\ \/ t_pc'[j] = t_pc[j]
                      \/ t_pc[j] = "waiting" /\ t_pc'[j] = "woken"
       /\ \A j \in Tasks : IsPresent(t_res[j]) => t_res'[j] = t_res[j]
       /\ rp_pc = "returned" => results' = results]_vars

\* One task has produced its result, its release has handed the slot to
\* one of two waiters, and the other one still waits.
C19_Witness ==
    /\ concurrency = 1
    /\ \E i, j, k \in Tasks :
         /\ IsPresent(t_res[i]) /\ Val(t_res[i]).ok
         /\ t_pc[j] = "woken"
         /\ t_pc[k] = "waiting"

====
